---- MODULE Spec2Model ----
(***************************************************************************)
(* A model of the secio handshake of c-libp2p (src/secio/secio.c).         *)
(*                                                                         *)
(* Two specifications share the module:                                    *)
(*   SpecSel  applies libp2p_secio_select_best (and libp2p_secio_split_list)*)
(*            to every pair of bounded list strings;                        *)
(*   Spec     runs libp2p_secio_handshake on two peers connected by a       *)
(*            transport an outside party may also write to.                 *)
(*                                                                         *)
(* A C string is a sequence of symbols; the symbol "," is the separator    *)
(* byte, every other symbol is one run of non-separator bytes.             *)
(***************************************************************************)
EXTENDS Integers, Sequences, FiniteSets, TLC

\* ------------------------------------------------------------------ bounds
MaxLen == 3              \* longest list string tried on select_best
MaxQueue == 1            \* messages in flight towards one peer

\* ------------------------------------------------------- program constants
NonceLen == 16           \* libp2p_secio_generate_nonce(..., 16)
HashLen == 32            \* unsigned char order_hash_in[32]
SizeTModulus == 65536    \* size_t arithmetic, scaled to 16 bits (TLC integers are 32 bits wide)

SupportedExchanges == <<"P-256", ",", "P-384", ",", "P-521">>
SupportedCiphers == <<"AES-256", ",", "AES-128", ",", "Blowfish">>
SupportedHashes == <<"SHA256", ",", "SHA512">>

\* ------------------------------------------------------------- list strings
Alphabet == {"a", "A", ","}

RECURSIVE StringsUpTo(_)
StringsUpTo(n) ==
    IF n = 0 THEN {<<>>}
    ELSE LET shorter == StringsUpTo(n - 1)
         IN  shorter \cup {Append(s, c) : s \in {t \in shorter : Len(t) = n - 1}, c \in Alphabet}

ListStrings == StringsUpTo(MaxLen)

\* what an uninitialised char* may hold: never the address of a token
UninitString == {<<"?1">>, <<"?2">>}

\* strtok skipping one separator only
SkipOneDelim(s, i) ==
    IF i > Len(s) THEN Len(s) + 1
    ELSE IF s[i] = "," THEN i + 1
    ELSE i

\* strtok: skip the separators at position i and after
RECURSIVE SkipDelims(_, _)
SkipDelims(s, i) ==
    IF i > Len(s) THEN Len(s) + 1
    ELSE IF s[i] = "," THEN SkipDelims(s, i + 1)
    ELSE i

\* strtok: the token starting at i ends before the next separator
RECURSIVE TokenEnd(_, _)
TokenEnd(s, i) ==
    IF i > Len(s) THEN Len(s) + 1
    ELSE IF s[i] = "," THEN i
    ELSE TokenEnd(s, i + 1)

\* the loop of libp2p_secio_split_list: one node per strtok result, appended
RECURSIVE SplitFrom(_, _)
SplitFrom(s, pos) ==
    LET b == SkipDelims(s, pos)
    IN  IF b > Len(s) THEN <<>>
        ELSE LET e == TokenEnd(s, b)
             IN  <<SubSeq(s, b, e - 1)>> \o SplitFrom(s, e + 1)

\* the StringList as a sequence of tokens; <<>> is the NULL head
libp2p_secio_split_list(list) == SplitFrom(list, 1)

\* inner while: scan the follower list from node j for strcmp == 0
RECURSIVE FollowerScan(_, _, _)
FollowerScan(tok, follower_head, j) ==
    IF j > Len(follower_head) THEN FALSE
    ELSE IF tok = follower_head[j] THEN TRUE
    ELSE FollowerScan(tok, follower_head, j + 1)

\* outer while with the reset 'follower = follower_head' left out
RECURSIVE LeadScanNoReset(_, _, _, _)
LeadScanNoReset(lead_head, follower_head, i, j) ==
    IF i > Len(lead_head) THEN 0
    ELSE IF FollowerScan(lead_head[i], follower_head, j) THEN 1
    ELSE LeadScanNoReset(lead_head, follower_head, i + 1, Len(follower_head) + 1)

\* outer while: lead at node i, follower at node j on entry; the value of match
RECURSIVE LeadScan(_, _, _, _)
LeadScan(lead_head, follower_head, i, j) ==
    IF i > Len(lead_head) THEN 0
    ELSE IF FollowerScan(lead_head[i], follower_head, j) THEN 1
    ELSE LeadScan(lead_head, follower_head, i + 1, 1)

\* select_best without the order == 0 shortcut
select_best_no_shortcut(order, local_list, remote_list, prior) ==
    LET lead_head == IF order >= 0 THEN libp2p_secio_split_list(local_list)
                     ELSE libp2p_secio_split_list(remote_list)
        follower_head == IF order >= 0 THEN libp2p_secio_split_list(remote_list)
                         ELSE libp2p_secio_split_list(local_list)
    IN  [ret |-> LeadScan(lead_head, follower_head, 1, 1), results |-> prior,
         remote_parsed |-> TRUE, crashed |-> FALSE]

\* libp2p_secio_select_best; prior is what *results holds before the call.
\* ret is the return value, results is *results after the call,
\* remote_parsed tells whether remote_list was handed to split_list,
\* crashed is the NULL dereference of lead_head->string.
libp2p_secio_select_best(order, local_list, remote_list, prior) ==
    LET local_head == libp2p_secio_split_list(local_list)
    IN  IF order = 0
        THEN IF local_head = <<>>
             THEN [ret |-> 0, results |-> prior, remote_parsed |-> FALSE, crashed |-> TRUE]
             ELSE [ret |-> 1, results |-> local_head[1], remote_parsed |-> FALSE, crashed |-> FALSE]
        ELSE LET lead_head == IF order > 0 THEN local_head
                              ELSE libp2p_secio_split_list(remote_list)
                 follower_head == IF order > 0 THEN libp2p_secio_split_list(remote_list)
                                  ELSE local_head
             IN  [ret |-> LeadScan(lead_head, follower_head, 1, 1), results |-> prior,
                  remote_parsed |-> TRUE, crashed |-> FALSE]

\* ------------------------------------------------------ handshake: the data
Peer == {"A", "B"}
Other(p) == IF p = "A" THEN "B" ELSE "A"

\* the two values /dev/urandom yields here, as NonceLen bytes each
LowNonce == [i \in 1..NonceLen |-> 7]
HighNonce == [i \in 1..NonceLen |-> 200]
Nonces == {LowNonce, HighNonce}

\* key material as byte strings: form "protobuf" is a serialised public key,
\* "raw" is the data member of a decoded key, "junk" decodes to nothing
KeyBytes(form, owner, type) == [form |-> form, owner |-> owner, type |-> type]
JunkKey == KeyBytes("junk", "none", "none")
NoKey == [type |-> "none", data |-> JunkKey]          \* struct PublicKey* == NULL

\* struct Propose
NewPropose(public_key, rand, exchanges, ciphers, hashes) ==
    [public_key |-> public_key, rand |-> rand, exchanges |-> exchanges,
     ciphers |-> ciphers, hashes |-> hashes]
NoPropose == NewPropose(JunkKey, <<>>, <<>>, <<>>, <<>>)   \* struct Propose* == NULL

\* a signature names its signer and the transcript it was made over
NoSig == [signer |-> "none", pin |-> <<>>, pout |-> <<>>, epk |-> "none", flipped |-> FALSE]
\* struct Exchange
NoExchange == [epubkey |-> "none", signature |-> NoSig]

\* a buffer is a sequence of chunks of bytes
Chunk(t, text, propose, exchange, raw) ==
    [t |-> t, text |-> text, propose |-> propose, exchange |-> exchange, raw |-> raw]
Text(str) == Chunk("text", str, NoPropose, NoExchange, <<>>)
NL == Chunk("nl", "\n", NoPropose, NoExchange, <<>>)
Junk == Chunk("junk", "", NoPropose, NoExchange, <<>>)
Raw(bytes) == Chunk("raw", "", NoPropose, NoExchange, bytes)

\* libp2p_secio_propose_protobuf_encode / libp2p_secio_exchange_protobuf_encode
propose_protobuf_encode(P) == <<Chunk("propose", "", P, NoExchange, <<>>)>>
exchange_protobuf_encode(E) == <<Chunk("exchange", "", NoPropose, E, <<>>)>>

\* libp2p_secio_propose_protobuf_decode: only an encoded Propose decodes
propose_protobuf_decode(bytes) ==
    IF Len(bytes) = 1 /\ bytes[1].t = "propose"
    THEN [ok |-> 1, out |-> bytes[1].propose]
    ELSE [ok |-> 0, out |-> NoPropose]

\* libp2p_secio_exchange_protobuf_decode: only an encoded Exchange decodes
exchange_protobuf_decode(bytes) ==
    IF Len(bytes) = 1 /\ bytes[1].t = "exchange"
    THEN [ok |-> 1, out |-> bytes[1].exchange]
    ELSE [ok |-> 0, out |-> NoExchange]

\* libp2p_crypto_public_key_protobuf_decode
public_key_protobuf_decode(bytes) ==
    IF bytes.form = "protobuf"
    THEN [ok |-> 1, out |-> [type |-> bytes.type, data |-> KeyBytes("raw", bytes.owner, "none")]]
    ELSE [ok |-> 0, out |-> NoKey]

\* the size in bytes of a buffer
ChunkSize(c) ==
    CASE c.t = "text" -> 12
      [] c.t = "nl" -> 1
      [] c.t = "junk" -> 5
      [] c.t = "raw" -> Len(c.raw)
      [] c.t = "propose" -> 64
      [] c.t = "exchange" -> 96

RECURSIVE BufSize(_)
BufSize(buf) == IF buf = <<>> THEN 0 ELSE ChunkSize(Head(buf)) + BufSize(Tail(buf))

\* the bytes of a buffer that holds raw bytes only
BufBytes(buf) == IF Len(buf) = 1 /\ buf[1].t = "raw" THEN buf[1].raw ELSE <<>>

ProtocolId == <<Text("/secio/1.0.0"), NL>>          \* "/secio/1.0.0\n"

\* the list strings an encoded Propose carries as plain text
ListText(P) == {P.exchanges, P.ciphers, P.hashes}

\* strstr(results, "secio") != NULL: the search runs over the whole buffer
HasSecio(buf) ==
    \E i \in 1..Len(buf) :
        \/ buf[i].t = "text" /\ buf[i].text = "/secio/1.0.0"
        \/ buf[i].t = "propose" /\ \E l \in ListText(buf[i].propose) :
                                      \E k \in 1..Len(l) : l[k] = "secio"

\* strchr(results, '\n'): the index of the first newline, 0 for NULL
RECURSIVE NewlineFrom(_, _)
NewlineFrom(buf, i) ==
    IF i > Len(buf) THEN 0
    ELSE IF buf[i].t = "nl" THEN i
    ELSE NewlineFrom(buf, i + 1)

\* an int converted to size_t
ToSizeT(r) == r % SizeTModulus

\* libp2p_crypto_hashing_sha256 over key bytes followed by a nonce: HashLen
\* bytes, different for different inputs
KeyCode(k) ==
    (IF k.form = "protobuf" THEN 1 ELSE IF k.form = "raw" THEN 2 ELSE 3)
    + (IF k.owner = "A" THEN 10 ELSE IF k.owner = "B" THEN 20 ELSE 30)
    + (IF k.type = "RSA" THEN 100 ELSE 0)
sha256(key, rand) ==
    [i \in 1..HashLen |->
        IF i = 1 THEN (KeyCode(key) * 37 + (IF rand = <<>> THEN 0 ELSE rand[1]) * 5) % 256
        ELSE 90]

\* libp2p_secio_hash
libp2p_secio_hash(in) == sha256(in.public_key, in.rand)

\* a byte read through a plain char, on a build where char is signed or not
AsChar(byte, signed) == IF signed /\ byte >= 128 THEN byte - 256 ELSE byte

\* libp2p_secio_bytes_compare
RECURSIVE BytesCompareFrom(_, _, _, _, _)
BytesCompareFrom(a, b, length, i, signed) ==
    IF i > length THEN 0
    ELSE IF AsChar(b[i], signed) > AsChar(a[i], signed) THEN -1
    ELSE IF AsChar(a[i], signed) > AsChar(b[i], signed) THEN 1
    ELSE BytesCompareFrom(a, b, length, i + 1, signed)

libp2p_secio_bytes_compare(a, b, length, signed) == BytesCompareFrom(a, b, length, 1, signed)

\* libp2p_crypto_rsa_sign / libp2p_crypto_rsa_verify
rsa_sign(owner, pin, pout, epk) ==
    [signer |-> owner, pin |-> pin, pout |-> pout, epk |-> epk, flipped |-> FALSE]
rsa_verify(key_data, pin, pout, epk, signature) ==
    IF /\ signature.signer = key_data.owner
       /\ signature.pin = pin /\ signature.pout = pout /\ signature.epk = epk
       /\ ~signature.flipped
    THEN 1 ELSE 0

\* libp2p_secio_verify_signature
libp2p_secio_verify_signature(public_key, pin, pout, epk, signature) ==
    IF public_key.type = "RSA"
    THEN rsa_verify(public_key.data, pin, pout, epk, signature)
    ELSE 0

\* libp2p_crypto_ephemeral_key_generate: a fresh key pair, named by its public key
ephemeral_key_generate(p) == IF p = "A" THEN "epkA" ELSE "epkB"

\* what a read through a pointer into a freed buffer may yield
DanglingRead(bytes) == {bytes, <<Junk>>}

\* what a read through propose_in_bytes may yield in frame f
ReadProposeIn(f) == IF f.pin_freed THEN DanglingRead(f.propose_in_bytes) ELSE {f.propose_in_bytes}

\* frame f after a read through propose_in_bytes at the named step
NotedRead(f, step) == [f EXCEPT !.pin_reads = Append(@, [at |-> step, live |-> ~f.pin_freed])]

\* ------------------------------------------ what the outside party may send
OutsiderPropose(type, nonce, ciphers) ==
    NewPropose(KeyBytes("protobuf", "M", type), nonce, SupportedExchanges, ciphers, SupportedHashes)
P_good == OutsiderPropose("RSA", LowNonce, SupportedCiphers)
P_nocipher == OutsiderPropose("RSA", HighNonce, <<"Twofish">>)
P_ed == OutsiderPropose("ED25519", LowNonce, SupportedCiphers)
P_badkey == NewPropose(JunkKey, LowNonce, SupportedExchanges, SupportedCiphers, SupportedHashes)

\* a Propose that names "secio" in its exchanges string
P_secio == NewPropose(KeyBytes("protobuf", "M", "RSA"), LowNonce, <<"secio">>, SupportedCiphers,
                      SupportedHashes)

SignedProposes == {P_good, P_ed}
InjectedProposes == SignedProposes \cup {P_nocipher, P_badkey}

OutsiderExchange(P, flipped) ==
    [epubkey |-> "epkM",
     signature |-> [rsa_sign("M", propose_protobuf_encode(P), <<>>, "epkM") EXCEPT !.flipped = flipped]]

InjectedExchanges ==
    {OutsiderExchange(P, FALSE) : P \in SignedProposes} \cup {OutsiderExchange(P_good, TRUE)}

FirstRoundMsgs ==
    {ProtocolId \o propose_protobuf_encode(P) : P \in InjectedProposes}
    \cup {<<Text("/mplex/6.7.0"), NL>> \o propose_protobuf_encode(P_good),
          <<Text("/mplex/6.7.0"), NL>> \o propose_protobuf_encode(P_secio),
          <<Text("/secio/1.0.0")>>,
          <<Text("/secio/1.0.0"), NL, Junk>>}

SecondRoundMsgs ==
    {exchange_protobuf_encode(E) : E \in InjectedExchanges}
    \cup {<<Raw(LowNonce)>>}

\* what a read through an uninitialised struct Exchange* may yield
WildExchanges == {NoExchange, OutsiderExchange(P_good, FALSE)}

\* the results a transport call may return for a buffer of n bytes
TransportFailures == {-1, 0}

\* --------------------------------------------------------------- variables
VARIABLES
    selPc, selOrder, selLocal, selRemote,   \* one call of select_best and its arguments
    selOut, mirOut,                         \* its outcome, and the outcome of the mirrored call
    h,            \* per peer: the locals of libp2p_secio_handshake, its position, what it has
                  \* allocated (live), the stages it has run, the transport results it got
                  \* (tlog), the buffers it handed to the transport (sent) and the
                  \* first-round response it received (accept); sign_ret, verify_ret
                  \* and exchange_dec hold what the call returned, -1 before it;
                  \* verify_in is the transcript handed to verify_signature;
                  \* pin_freed tells that the buffer propose_in_bytes points into was
                  \* freed, pin_reads lists the reads made through propose_in_bytes and
                  \* propose_frees the Propose structs released so far
    session,      \* per peer: the struct SecureSession handed to the handshake
    net,          \* per peer: the buffers in flight towards it
    charSigned,   \* whether plain char is signed on this build
    injected,     \* whether the outside party has written to the transport
    cmp,          \* one call of libp2p_secio_bytes_compare: its arguments and result
    split,        \* per thread: one call of libp2p_secio_split_list, step by step
    olds          \* the position strtok keeps between calls, one for the whole process

selVars == <<selPc, selOrder, selLocal, selRemote, selOut, mirOut>>
hsVars == <<h, session, net, charSigned, injected>>
cmpVars == <<cmp>>
splitVars == <<split, olds>>
vars == <<selPc, selOrder, selLocal, selRemote, selOut, mirOut, h, session, net, charSigned, injected,
          cmp, split, olds>>

NoCall == [ret |-> 0, results |-> <<>>, remote_parsed |-> FALSE, crashed |-> FALSE]

\* the locals of libp2p_secio_handshake on entry
NewFrame ==
    [pc |-> "start", retVal |-> 0,
     results |-> <<>>, results_size |-> 0,
     propose_in_bytes |-> <<>>, propose_in_size |-> 0,
     propose_out_bytes |-> <<>>, propose_out_size |-> 0,
     propose_in |-> NoPropose, propose_out |-> NoPropose,
     public_key |-> NoKey, order |-> 0, select_ret |-> <<>>,
     exchange_out |-> NoExchange, exchange_in |-> NoExchange,
     sign_ret |-> -1, verify_ret |-> -1, exchange_dec |-> -1,
     e_private_key |-> "none", verify_in |-> <<>>,
     pin_freed |-> FALSE, pin_reads |-> <<>>, propose_frees |-> <<>>,
     reply |-> <<>>,
     sent |-> <<>>, accept |-> <<>>,
     live |-> {}, stages |-> {}, tlog |-> <<>>]

\* libp2p_secio_secure_session_new: only socket_descriptor is set
NewSession ==
    [nonce |-> <<>>,
     chosen_curve |-> <<"?1">>, chosen_cipher |-> <<"?1">>, chosen_hash |-> <<"?1">>,
     ephemeral_public_key |-> "uninit",
     outbound_keys |-> "unset", inbound_keys |-> "unset"]

\* no handshake is running (the selector is examined alone)
HsIdle ==
    /\ h = [p \in Peer |-> [NewFrame EXCEPT !.pc = "idle"]]
    /\ session = [p \in Peer |-> NewSession]
    /\ net = [p \in Peer |-> <<>>]
    /\ charSigned = TRUE
    /\ injected = FALSE

\* threads that may run libp2p_secio_split_list at the same time
Thread == {"T1", "T2"}
NoOlds == [owner |-> "none", pos |-> 0]
NewSplit(list) == [list |-> list, pc |-> "start", curr_tok |-> <<>>, head |-> <<>>]

\* no bytes_compare call is examined
CmpIdle == cmp = [pc |-> "idle", a |-> <<>>, b |-> <<>>, ret |-> 0]

\* no thread is in split_list
SplitIdle ==
    /\ split = [t \in Thread |-> [NewSplit(<<>>) EXCEPT !.pc = "idle"]]
    /\ olds = NoOlds

\* ----------------------------------------------- SpecSel: the selector alone
SelIdle ==
    /\ selPc = "idle"
    /\ selOrder = 0
    /\ selLocal = <<>>
    /\ selRemote = <<>>
    /\ selOut = NoCall
    /\ mirOut = NoCall

InitSel ==
    /\ selPc = "start"
    /\ selOrder \in {-1, 0, 1}
    /\ selLocal \in ListStrings
    /\ selRemote \in ListStrings
    /\ selOut = NoCall
    /\ mirOut = NoCall
    /\ HsIdle
    /\ CmpIdle
    /\ SplitIdle

\* one peer calls select_best(order, local, remote, &chosen)
SelectCall ==
    /\ selPc = "start"
    /\ \E prior \in UninitString :
          selOut' = libp2p_secio_select_best(selOrder, selLocal, selRemote, prior)
    /\ selPc' = "called"
    /\ UNCHANGED <<selOrder, selLocal, selRemote, mirOut, hsVars, cmpVars, splitVars>>

\* the other peer calls select_best(-order, remote, local, &chosen)
MirrorCall ==
    /\ selPc = "called"
    /\ \E prior \in UninitString :
          mirOut' = libp2p_secio_select_best(0 - selOrder, selRemote, selLocal, prior)
    /\ selPc' = "mirrored"
    /\ UNCHANGED <<selOrder, selLocal, selRemote, selOut, hsVars, cmpVars, splitVars>>

NextSel == SelectCall \/ MirrorCall

SpecSel == InitSel /\ [][NextSel]_vars

\* ------------------------------- SpecSplit: split_list on two threads
\* strtok continuing in buf at pos: the token it returns (null for NULL) and
\* the position it keeps for the next call
strtok(buf, pos) ==
    LET b == SkipDelims(buf, pos)
        e == TokenEnd(buf, b)
    IN  IF b > Len(buf)
        THEN [null |-> TRUE, tok |-> <<>>, pos |-> Len(buf) + 1]
        ELSE [null |-> FALSE, tok |-> SubSeq(buf, b, e - 1),
              pos |-> IF e > Len(buf) THEN e ELSE e + 1]

\* the lists handed to split_list: every short one, and "a,,A"
SplitInputs == ListStrings \cup {<<"a", ",", ",", "A">>}

InitSplit ==
    /\ split \in [Thread -> {NewSplit(l) : l \in SplitInputs}]
    /\ olds = NoOlds
    /\ SelIdle
    /\ HsIdle
    /\ CmpIdle

\* strtok(NULL, ","): it continues where the last call of any thread stopped.
\* That place lies in the copy of the thread that made the call; once that
\* thread has returned, its copy is gone and the read may find the old bytes
\* or anything else.
StrtokNull ==
    IF olds.owner = "none"
    THEN {[null |-> TRUE, tok |-> <<>>, olds |-> olds]}
    ELSE LET r == strtok(split[olds.owner].list, olds.pos)
             found == [null |-> r.null, tok |-> r.tok,
                       olds |-> [owner |-> olds.owner, pos |-> r.pos]]
         IN  IF split[olds.owner].pc # "done" THEN {found}
             ELSE {found, [null |-> FALSE, tok |-> <<"?1">>, olds |-> NoOlds]}

\* lines 96-101: copy the list, curr_tok = strtok(copy, ",")
SplitFirst(t) ==
    /\ split[t].pc = "start"
    /\ LET r == strtok(split[t].list, 1)
       IN  /\ split' = [split EXCEPT ![t] = [@ EXCEPT !.curr_tok = r.tok,
                                                      !.pc = IF r.null THEN "done" ELSE "loop"]]
           /\ olds' = [owner |-> t, pos |-> r.pos]
    /\ UNCHANGED <<hsVars, selVars, cmpVars>>

\* lines 102-112: one turn of the loop: append curr_tok, curr_tok = strtok(NULL, ",")
SplitNext(t) ==
    /\ split[t].pc = "loop"
    /\ \E r \in StrtokNull :
          /\ split' = [split EXCEPT ![t] = [@ EXCEPT !.head = Append(@, split[t].curr_tok),
                                                     !.curr_tok = r.tok,
                                                     !.pc = IF r.null THEN "done" ELSE "loop"]]
          /\ olds' = r.olds
    /\ UNCHANGED <<hsVars, selVars, cmpVars>>

NextSplit == \E t \in Thread : SplitFirst(t) \/ SplitNext(t)

SpecSplit == InitSplit /\ [][NextSplit]_vars

\* ------------------------------------------- SpecCmp: bytes_compare alone
\* bytes on both sides of 0x80, and the places where two hashes first differ
ByteSamples == {0, 127, 128, 255}
DifferAt == {1, 16, HashLen}

\* a hash that is 90 up to position k - 1, x at k and y after it
SampleHash(k, x, y) == [i \in 1..HashLen |-> IF i < k THEN 90 ELSE IF i = k THEN x ELSE y]
SampleHashes == {SampleHash(k, x, y) : k \in DifferAt, x \in ByteSamples, y \in ByteSamples}

InitCmp ==
    /\ cmp \in [pc : {"start"}, a : SampleHashes, b : SampleHashes, ret : {0}]
    /\ charSigned \in BOOLEAN
    /\ h = [p \in Peer |-> [NewFrame EXCEPT !.pc = "idle"]]
    /\ session = [p \in Peer |-> NewSession]
    /\ net = [p \in Peer |-> <<>>]
    /\ injected = FALSE
    /\ SelIdle
    /\ SplitIdle

\* line 332: order = libp2p_secio_bytes_compare(order_hash_in, order_hash_out, 32)
CompareCall ==
    /\ cmp.pc = "start"
    /\ cmp' = [cmp EXCEPT !.pc = "done",
                          !.ret = libp2p_secio_bytes_compare(cmp.a, cmp.b, HashLen, charSigned)]
    /\ UNCHANGED <<hsVars, selVars, splitVars>>

NextCmp == CompareCall

SpecCmp == InitCmp /\ [][NextCmp]_vars

\* ------------------------------------------------ Spec: the handshake itself
Init ==
    /\ SelIdle
    /\ CmpIdle
    /\ SplitIdle
    /\ h = [p \in Peer |-> NewFrame]
    /\ session = [p \in Peer |-> NewSession]
    /\ net = [p \in Peer |-> <<>>]
    /\ charSigned \in BOOLEAN
    /\ injected = FALSE

\* libp2p_net_multistream_send: what it may return for buf, and what it delivers
SendResults(p, buf) ==
    TransportFailures \cup (IF Len(net[Other(p)]) < MaxQueue THEN {BufSize(buf)} ELSE {})
Deliver(p, buf, r) == IF r > 0 THEN [net EXCEPT ![Other(p)] = Append(@, buf)] ELSE net

\* libp2p_net_multistream_receive: what it may return, and what it takes
ReceiveResults(p) ==
    TransportFailures \cup (IF net[p] # <<>> THEN {BufSize(Head(net[p]))} ELSE {})
Taken(p, r) == IF r > 0 THEN [net EXCEPT ![p] = Tail(@)] ELSE net

Logged(f, call, r) == [f EXCEPT !.tlog = Append(@, [call |-> call, ret |-> r])]

\* lines 276-278: send the protocol identifier
SendProtocol(p) ==
    /\ h[p].pc = "start"
    /\ \E r \in SendResults(p, ProtocolId) :
          LET bytes_written == ToSizeT(r)
              f == [Logged(h[p], "send_protocol", r) EXCEPT !.sent = Append(@, ProtocolId)]
          IN  /\ net' = Deliver(p, ProtocolId, r)
              /\ h' = [h EXCEPT ![p] =
                          [f EXCEPT !.pc = IF bytes_written <= 0 THEN "exit" ELSE "recv_propose"]]
    /\ UNCHANGED <<session, charSigned, injected, selVars, cmpVars, splitVars>>

\* lines 281-298: receive the accept line and the Propose, decode it, free results
ReceivePropose(p) ==
    /\ h[p].pc = "recv_propose"
    /\ \E r \in ReceiveResults(p) :
          LET got == r > 0
              bytes_written == ToSizeT(r)
              results == IF got THEN Head(net[p]) ELSE h[p].results
              results_size == IF got THEN r ELSE h[p].results_size
              nl == NewlineFrom(results, 1)
              propose_in_bytes == SubSeq(results, nl + 1, Len(results))
              propose_in_size == results_size - BufSize(SubSeq(results, 1, nl))
              dec == propose_protobuf_decode(propose_in_bytes)
              f == [Logged(h[p], "receive_propose", r) EXCEPT
                        !.results = results, !.results_size = results_size,
                        !.accept = IF got THEN results ELSE @,
                        !.live = IF got THEN @ \cup {"results"} ELSE @]
          IN  /\ net' = Taken(p, r)
              /\ h' = [h EXCEPT ![p] =
                    IF bytes_written < 1 THEN [f EXCEPT !.pc = "exit"]
                    ELSE IF results = <<>> THEN [f EXCEPT !.pc = "crashed"]   \* strstr(NULL, ...)
                    ELSE IF ~HasSecio(results) THEN [f EXCEPT !.pc = "exit"]
                    ELSE IF nl = 0 THEN [f EXCEPT !.pc = "exit"]
                    ELSE IF dec.ok = 0
                    THEN [f EXCEPT !.pc = "exit", !.propose_in_bytes = propose_in_bytes,
                                   !.propose_in_size = propose_in_size]
                    ELSE [f EXCEPT !.pc = "decode_key",
                                   !.propose_in_bytes = propose_in_bytes,
                                   !.propose_in_size = propose_in_size,
                                   !.propose_in = dec.out,
                                   !.results = <<>>, !.results_size = 0,
                                   !.pin_freed = TRUE,
                                   !.live = (@ \cup {"propose_in"}) \ {"results"}]]
    /\ UNCHANGED <<session, charSigned, injected, selVars, cmpVars, splitVars>>

\* lines 301-305 with the nonce of line 310 drawn before the key is decoded
DecodePublicKeyNonceFirst(p) ==
    /\ h[p].pc = "decode_key"
    /\ \E nonce \in Nonces : session' = [session EXCEPT ![p].nonce = nonce]
    /\ LET dec == public_key_protobuf_decode(h[p].propose_in.public_key)
       IN  h' = [h EXCEPT ![p] =
                    IF dec.ok = 0 THEN [@ EXCEPT !.pc = "exit"]
                    ELSE [@ EXCEPT !.pc = "build_propose", !.public_key = dec.out,
                                   !.live = @ \cup {"public_key", "remote_peer_id"}]]
    /\ UNCHANGED <<net, charSigned, injected, selVars, cmpVars, splitVars>>

\* lines 301-305: decode the peer's public key, derive its peer id
DecodePublicKey(p) ==
    /\ h[p].pc = "decode_key"
    /\ LET dec == public_key_protobuf_decode(h[p].propose_in.public_key)
       IN  h' = [h EXCEPT ![p] =
                    IF dec.ok = 0 THEN [@ EXCEPT !.pc = "exit"]
                    ELSE [@ EXCEPT !.pc = "build_propose", !.public_key = dec.out,
                                   !.live = @ \cup {"public_key", "remote_peer_id"}]]
    /\ UNCHANGED <<session, net, charSigned, injected, selVars, cmpVars, splitVars>>

\* lines 310-327: draw the nonce, fill propose_out
BuildPropose(p) ==
    /\ h[p].pc = "build_propose"
    /\ \E nonce \in Nonces :
          /\ session' = [session EXCEPT ![p].nonce = nonce]
          /\ h' = [h EXCEPT ![p] =
                      [@ EXCEPT !.pc = "negotiate",
                                !.propose_out = NewPropose(h[p].public_key.data, nonce,
                                                   SupportedExchanges, SupportedCiphers, SupportedHashes),
                                !.live = @ \cup {"propose_out"}]]
    /\ UNCHANGED <<net, charSigned, injected, selVars, cmpVars, splitVars>>

\* lines 330-344: the order, then select_best for curve, cipher and hash
Negotiate(p) ==
    /\ h[p].pc = "negotiate"
    /\ LET order_hash_in == libp2p_secio_hash(h[p].propose_in)
           order_hash_out == libp2p_secio_hash(h[p].propose_out)
           order == libp2p_secio_bytes_compare(order_hash_in, order_hash_out, HashLen, charSigned)
           curve == libp2p_secio_select_best(order, h[p].propose_out.exchanges,
                        h[p].propose_in.exchanges, session[p].chosen_curve)
           cipher == libp2p_secio_select_best(order, h[p].propose_out.ciphers,
                        h[p].propose_in.ciphers, session[p].chosen_cipher)
           hash == libp2p_secio_select_best(order, h[p].propose_out.hashes,
                        h[p].propose_in.hashes, session[p].chosen_hash)
       IN  /\ session' = [session EXCEPT ![p].chosen_curve = curve.results,
                                         ![p].chosen_cipher = cipher.results,
                                         ![p].chosen_hash = hash.results]
           /\ h' = [h EXCEPT ![p] =
                       [@ EXCEPT !.pc = "ephemeral", !.order = order,
                                 !.select_ret = <<curve.ret, cipher.ret, hash.ret>>,
                                 !.stages = @ \cup {"select_best"},
                                 !.live = @ \cup (IF order = 0 THEN {"chosen"} ELSE {"string_lists"})]]
    /\ UNCHANGED <<net, charSigned, injected, selVars, cmpVars, splitVars>>

\* lines 346-365: the ephemeral key, the transcript to sign, exchange_out
GenerateAndSign(p) ==
    /\ h[p].pc = "ephemeral"
    /\ \E alloc_ok \in BOOLEAN, is_rsa \in BOOLEAN, readable \in BOOLEAN,
          pin \in ReadProposeIn(h[p]) :
          LET epk == session[p].ephemeral_public_key      \* never assigned
              f == [h[p] EXCEPT !.stages = @ \cup {"ephemeral_key_generate"},
                                !.e_private_key = ephemeral_key_generate(p),
                                !.live = @ \cup {"e_private_key"}]
          IN  h' = [h EXCEPT ![p] =
                    IF ~alloc_ok THEN [f EXCEPT !.pc = "exit"]
                    ELSE IF ~readable
                    THEN [NotedRead(f, "sign") EXCEPT !.pc = "crashed", !.live = @ \cup {"char_buffer"}]
                    ELSE [NotedRead(f, "sign") EXCEPT !.pc = "send_exchange",
                                   !.exchange_out =
                                       [epubkey |-> epk,
                                        signature |-> IF is_rsa
                                                      THEN rsa_sign(p, pin, h[p].propose_out_bytes, epk)
                                                      ELSE NoSig],
                                   !.sign_ret = IF is_rsa THEN 1 ELSE 0,
                                   !.stages = @ \cup {"sign"},
                                   !.live = @ \cup {"exchange_out"}]]
    /\ UNCHANGED <<session, net, charSigned, injected, selVars, cmpVars, splitVars>>

\* lines 367-373: encode exchange_out and send it
SendExchange(p) ==
    /\ h[p].pc = "send_exchange"
    /\ \E alloc_ok \in BOOLEAN :
          LET buf == exchange_protobuf_encode(h[p].exchange_out)
          IN  IF ~alloc_ok
              THEN /\ h' = [h EXCEPT ![p] = [@ EXCEPT !.pc = "exit"]]
                   /\ net' = net
              ELSE \E r \in SendResults(p, buf) :
                      /\ net' = Deliver(p, buf, r)
                      /\ h' = [h EXCEPT ![p] =
                                  [Logged(h[p], "send_exchange", r) EXCEPT
                                      !.pc = "recv_exchange",
                                      !.sent = Append(@, buf),
                                      !.stages = @ \cup {"send_exchange"}]]
    /\ UNCHANGED <<session, charSigned, injected, selVars, cmpVars, splitVars>>

\* lines 376-381: receive the peer's Exchange and decode it
ReceiveExchange(p) ==
    /\ h[p].pc = "recv_exchange"
    /\ \E r \in ReceiveResults(p) :
          LET got == r > 0
              results == IF got THEN Head(net[p]) ELSE h[p].results
              results_size == IF got THEN r ELSE h[p].results_size
              dec == exchange_protobuf_decode(results)
              f == [Logged(h[p], "receive_exchange", r) EXCEPT
                        !.results = results, !.results_size = results_size,
                        !.stages = @ \cup {"receive_exchange"},
                        !.exchange_dec = dec.ok,
                        !.live = IF got THEN @ \cup {"results"} ELSE @]
          IN  /\ net' = Taken(p, r)
              /\ IF dec.ok = 1
                 THEN h' = [h EXCEPT ![p] =
                               [f EXCEPT !.pc = "verify", !.exchange_in = dec.out,
                                         !.live = @ \cup {"exchange_in"}]]
                 ELSE \* exchange_in is read although nothing was stored in it
                      \/ h' = [h EXCEPT ![p] = [f EXCEPT !.pc = "crashed"]]
                      \/ \E wild \in WildExchanges :
                            h' = [h EXCEPT ![p] = [f EXCEPT !.pc = "verify", !.exchange_in = wild]]
    /\ UNCHANGED <<session, charSigned, injected, selVars, cmpVars, splitVars>>

\* lines 383-391 with the result of verify_signature ignored
VerifyExchangeIgnored(p) ==
    /\ h[p].pc = "verify"
    /\ \E alloc_ok \in BOOLEAN, pin \in ReadProposeIn(h[p]) :
          LET char_buffer == <<pin, h[p].propose_out_bytes, h[p].exchange_in.epubkey>>
              v == libp2p_secio_verify_signature(h[p].public_key, char_buffer[1], char_buffer[2],
                       char_buffer[3], h[p].exchange_in.signature)
          IN  h' = [h EXCEPT ![p] =
                    IF ~alloc_ok THEN [@ EXCEPT !.pc = "exit"]
                    ELSE [NotedRead(@, "verify") EXCEPT !.pc = "stretch", !.verify_ret = v,
                                                        !.verify_in = char_buffer]]
    /\ UNCHANGED <<session, net, charSigned, injected, selVars, cmpVars, splitVars>>

\* lines 383-391: rebuild the transcript and verify the peer's signature
VerifyExchange(p) ==
    /\ h[p].pc = "verify"
    /\ \E alloc_ok \in BOOLEAN, pin \in ReadProposeIn(h[p]) :
          LET char_buffer == <<pin, h[p].propose_out_bytes, h[p].exchange_in.epubkey>>
              v == libp2p_secio_verify_signature(h[p].public_key, char_buffer[1], char_buffer[2],
                       char_buffer[3], h[p].exchange_in.signature)
          IN  h' = [h EXCEPT ![p] =
                    IF ~alloc_ok THEN [@ EXCEPT !.pc = "exit"]
                    ELSE IF v = 0
                    THEN [NotedRead(@, "verify") EXCEPT
                                   !.pc = "exit", !.verify_ret = v, !.verify_in = char_buffer,
                                   !.live = @ \cup {"char_buffer"}]
                    ELSE [NotedRead(@, "verify") EXCEPT !.pc = "stretch", !.verify_ret = v,
                                                        !.verify_in = char_buffer]]
    /\ UNCHANGED <<session, net, charSigned, injected, selVars, cmpVars, splitVars>>

\* libp2p_secio_stretch_keys: returns 0, touches neither session
libp2p_secio_stretch_keys(local_session, order_preference) == local_session

\* lines 396-401: stretch the keys, make MAC and cipher
StretchKeys(p) ==
    /\ h[p].pc = "stretch"
    /\ session' = [session EXCEPT ![p] = libp2p_secio_stretch_keys(session[p], h[p].order)]
    /\ h' = [h EXCEPT ![p] =
                [@ EXCEPT !.pc = "confirm",
                          !.stages = @ \cup {"stretch_keys", "make_mac_and_cipher"}]]
    /\ UNCHANGED <<net, charSigned, injected, selVars, cmpVars, splitVars>>

\* libp2p_secio_read: returns 0, stores nothing in *bytes and *bytes_read
libp2p_secio_read(results, results_size) == [bytes |-> results, bytes_read |-> results_size, reply |-> <<>>]

\* lines 404-411: write the nonce, read the reply, compare
Confirm(p) ==
    /\ h[p].pc = "confirm"
    /\ LET rd == libp2p_secio_read(h[p].results, h[p].results_size)
           f == [h[p] EXCEPT !.stages = @ \cup {"secio_write", "secio_read"},
                             !.results = rd.bytes, !.results_size = rd.bytes_read,
                             !.reply = rd.reply, !.pc = "exit"]
       IN  h' = [h EXCEPT ![p] =
                    IF f.results_size # NonceLen THEN f
                    ELSE IF libp2p_secio_bytes_compare(BufBytes(f.results), session[p].nonce,
                                NonceLen, charSigned) # 0 THEN f
                    ELSE [f EXCEPT !.retVal = 1]]
    /\ UNCHANGED <<session, net, charSigned, injected, selVars, cmpVars, splitVars>>

\* lines 413-419: free both Propose structs and return retVal
Exit(p) ==
    /\ h[p].pc = "exit"
    /\ h' = [h EXCEPT ![p] = [@ EXCEPT !.pc = "done",
                                       !.propose_frees =
                                           @ \o (IF "propose_out" \in h[p].live
                                                 THEN <<"propose_out">> ELSE <<>>)
                                             \o (IF "propose_in" \in h[p].live
                                                 THEN <<"propose_in">> ELSE <<>>),
                                       !.live = @ \ {"propose_out", "propose_in"}]]
    /\ UNCHANGED <<session, net, charSigned, injected, selVars, cmpVars, splitVars>>

\* the outside party writes a buffer of its own towards peer A while A waits
\* with nothing pending
Inject ==
    /\ net["A"] = <<>>
    /\ h["A"].pc \in {"recv_propose", "recv_exchange"}
    /\ \E buf \in (IF h["A"].pc = "recv_propose" THEN FirstRoundMsgs ELSE SecondRoundMsgs) :
          net' = [net EXCEPT !["A"] = Append(@, buf)]
    /\ injected' = TRUE
    /\ UNCHANGED <<h, session, charSigned, selVars, cmpVars, splitVars>>

Handshake(p) ==
    \/ SendProtocol(p)
    \/ ReceivePropose(p)
    \/ DecodePublicKey(p)
    \/ BuildPropose(p)
    \/ Negotiate(p)
    \/ GenerateAndSign(p)
    \/ SendExchange(p)
    \/ ReceiveExchange(p)
    \/ VerifyExchange(p)
    \/ StretchKeys(p)
    \/ Confirm(p)
    \/ Exit(p)

Next == (\E p \in Peer : Handshake(p)) \/ Inject

Spec == Init /\ [][Next]_vars

\* ------------------------------------------- claims about the selector alone
\* the tokens of a list string, by position: maximal non-empty runs without ","
TokenSpans(s) ==
    {sp \in (1..Len(s)) \X (1..Len(s)) :
        /\ sp[1] <= sp[2]
        /\ \A k \in sp[1]..sp[2] : s[k] # ","
        /\ (sp[1] = 1 \/ s[sp[1] - 1] = ",")
        /\ (sp[2] = Len(s) \/ s[sp[2] + 1] = ",")}

TokenSet(s) == {SubSeq(s, sp[1], sp[2]) : sp \in TokenSpans(s)}

FirstToken(s) ==
    LET sp == CHOOSE x \in TokenSpans(s) : \A y \in TokenSpans(s) : x[1] <= y[1]
    IN  SubSeq(s, sp[1], sp[2])

\* the earliest token of lead that also is a token of follower
FirstLeadMatch(lead, follower) ==
    LET common == {x \in TokenSpans(lead) : SubSeq(lead, x[1], x[2]) \in TokenSet(follower)}
        sp == CHOOSE x \in common : \A y \in common : x[1] <= y[1]
    IN  SubSeq(lead, sp[1], sp[2])

SelLead == IF selOrder > 0 THEN selLocal ELSE selRemote
SelFollower == IF selOrder > 0 THEN selRemote ELSE selLocal
SelShared == TokenSet(SelLead) \cap TokenSet(SelFollower)
SelCalled == selPc \in {"called", "mirrored"}

\* C7: for order # 0 and lists sharing a token, select_best succeeds and
\* delivers in *results the first lead token that occurs in the follower list.
C7_DeliversFirstLeadMatch ==
    (SelCalled /\ selOrder # 0 /\ SelShared # {})
        => (selOut.ret = 1 /\ selOut.results = FirstLeadMatch(SelLead, SelFollower))

\* C8: select_best(+1, X, Y) and select_best(-1, Y, X) both fail, or both
\* succeed with the same chosen algorithm.
C8_RolesAgree ==
    (selPc = "mirrored" /\ selOrder # 0)
        => /\ selOut.ret = mirOut.ret
           /\ (selOut.ret = 1 => selOut.results = mirOut.results)

\* C9: for order # 0, select_best returns 0 exactly when no token of the lead
\* list equals (symbol for symbol) a token of the follower list.
C9_FailsIffDisjoint ==
    (SelCalled /\ selOrder # 0)
        => /\ ~selOut.crashed
           /\ (selOut.ret = 0 <=> SelShared = {})
           /\ selOut.ret \in {0, 1}

C9_Witness ==
    /\ selPc = "called" /\ selOrder = 1
    /\ selLocal = <<"A">> /\ selRemote = <<"a">>
    /\ selOut.ret = 0

\* C10: for order = 0, select_best returns 1 with the first token of the local
\* list in *results, whatever the remote list, and never parses the remote list.
C10_TieTakesFirstLocal ==
    (SelCalled /\ selOrder = 0 /\ TokenSpans(selLocal) # {})
        => /\ selOut.ret = 1
           /\ ~selOut.crashed
           /\ selOut.results = FirstToken(selLocal)
           /\ ~selOut.remote_parsed

C10_Witness ==
    /\ selPc = "called" /\ selOrder = 0
    /\ selLocal = <<"a", ",", "A">> /\ selRemote = <<"A">>
    /\ selOut.ret = 1 /\ selOut.results = <<"a">>

\* --------------------------------------------------- claims about the handshake
Returned(p) == h[p].pc = "done"
Aborted(p) == h[p].pc \in {"exit", "done"} /\ h[p].retVal = 0
LaterStages == {"stretch_keys", "make_mac_and_cipher", "secio_write", "secio_read"}

\* every transport call of every peer returned a positive count and nobody
\* else wrote to the transport
ReliableRun ==
    /\ ~injected
    /\ \A p \in Peer : \A i \in 1..Len(h[p].tlog) : h[p].tlog[i].ret > 0

\* C1: two honest peers over a reliable transport both return 1 and hold the
\* same two key bundles with opposite assignment.
C1_HonestPeersAgree ==
    (ReliableRun /\ \A p \in Peer : Returned(p))
        => /\ \A p \in Peer : h[p].retVal = 1
           /\ \A p \in Peer : session[p].outbound_keys # "unset"
           /\ \A p \in Peer : session[p].outbound_keys = session[Other(p)].inbound_keys

\* C2: once verification of the peer's signature has failed, the handshake is
\* on its way out with retVal 0 and none of stretch_keys, make_mac_and_cipher,
\* secio_write, secio_read has run or will run.
C2_VerifyFailureIsFatal ==
    \A p \in Peer :
        h[p].verify_ret = 0 => (Aborted(p) /\ h[p].stages \cap LaterStages = {})

C2_Witness ==
    \E p \in Peer :
        /\ Returned(p) /\ h[p].retVal = 0 /\ h[p].verify_ret = 0
        /\ h[p].exchange_in.signature.flipped
        /\ h[p].public_key.type = "RSA"

\* C3: after a transport call that returned zero or a negative number, the
\* handshake makes no further transport call, runs no later stage and
\* returns 0.
C3_TransportFailureAborts ==
    \A p \in Peer : \A i \in 1..Len(h[p].tlog) :
        h[p].tlog[i].ret <= 0
            => /\ Len(h[p].tlog) = i
               /\ Aborted(p)
               /\ h[p].stages \cap LaterStages = {}

\* C4: when select_best has failed for curve, cipher or hash, no ephemeral key
\* is generated and no Exchange is sent.
C4_SelectionFailureAborts ==
    \A p \in Peer :
        (\E i \in 1..Len(h[p].select_ret) : h[p].select_ret[i] = 0)
            => h[p].stages \cap {"ephemeral_key_generate", "send_exchange"} = {}

\* C5: when the handshake has returned 0, nothing it allocated is still live.
C5_FailureReleasesAll ==
    \A p \in Peer : (Returned(p) /\ h[p].retVal = 0) => h[p].live = {}

\* C6: the handshake returns 1 only if libp2p_secio_read delivered a reply of
\* exactly NonceLen bytes equal to the local nonce.
C6_SuccessOnlyOnEcho ==
    \A p \in Peer :
        h[p].retVal = 1 => (BufSize(h[p].reply) = NonceLen /\ BufBytes(h[p].reply) = session[p].nonce)

\* ------------------------------------------------- claims about bytes_compare
\* the first position where two hashes differ, 0 when they are equal
FirstDifference(a, b) ==
    IF a = b THEN 0
    ELSE CHOOSE i \in 1..HashLen : a[i] # b[i] /\ \A j \in 1..(i - 1) : a[j] = b[j]

\* the sign of the comparison of a with b as sequences of unsigned bytes
UnsignedSign(a, b) ==
    LET i == FirstDifference(a, b)
    IN  IF i = 0 THEN 0 ELSE IF a[i] < b[i] THEN -1 ELSE 1

\* C11: bytes_compare(remote, local, 32) is the sign of the lexicographic
\* comparison of the two hashes with every byte taken as unsigned 0..255.
C11_UnsignedLexicographic ==
    cmp.pc = "done" => cmp.ret = UnsignedSign(cmp.a, cmp.b)

\* ------------------------------------------- claims about the two rounds
Called(p, call) == \E i \in 1..Len(h[p].tlog) : h[p].tlog[i].call = call

\* C12: before the peer's Propose is awaited the handshake has handed the
\* protocol identifier followed by its encoded local Propose to the transport,
\* and a run that reaches the Exchange stage has built, encoded and sent its
\* local Propose.
C12_ProposeSentBeforeReceive ==
    \A p \in Peer :
        /\ Called(p, "receive_propose")
              => /\ h[p].sent # <<>>
                 /\ \E P \in {h[p].propose_out} \ {NoPropose} :
                       h[p].sent[1] = ProtocolId \o propose_protobuf_encode(P)
        /\ "ephemeral_key_generate" \in h[p].stages
              => /\ h[p].propose_out_bytes = propose_protobuf_encode(h[p].propose_out)
                 /\ \E i \in 1..Len(h[p].sent) :
                       h[p].sent[i] = ProtocolId \o h[p].propose_out_bytes

\* "secio" occurs in buf before its first newline
SecioBeforeNewline(buf) ==
    LET nl == NewlineFrom(buf, 1)
    IN  nl > 0 /\ HasSecio(SubSeq(buf, 1, nl - 1))

\* C13: a response without "secio" before its first newline is rejected: the
\* handshake is on its way out with 0 and the payload was not taken as the
\* peer's Propose.
C13_RejectsWithoutAcceptToken ==
    \A p \in Peer :
        (h[p].accept # <<>> /\ ~SecioBeforeNewline(h[p].accept))
            => (Aborted(p) /\ h[p].propose_in = NoPropose)

\* ------------------------------------------------ claims about split_list
\* C14: a split_list call that runs beside another one on a second thread
\* returns the token list it returns when run alone.
C14_ThreadsDoNotInterfere ==
    \A t \in Thread :
        split[t].pc = "done" => split[t].head = libp2p_secio_split_list(split[t].list)

\* the segments of s between its commas, empty ones included
RECURSIVE SegmentsFrom(_, _, _)
SegmentsFrom(s, i, acc) ==
    IF i > Len(s) THEN <<acc>>
    ELSE IF s[i] = "," THEN <<acc>> \o SegmentsFrom(s, i + 1, <<>>)
    ELSE SegmentsFrom(s, i + 1, Append(acc, s[i]))
Segments(s) == SegmentsFrom(s, 1, <<>>)

\* a sequence without its empty members at the end
RECURSIVE DropTrailingEmpty(_)
DropTrailingEmpty(q) ==
    IF q # <<>> /\ q[Len(q)] = <<>> THEN DropTrailingEmpty(SubSeq(q, 1, Len(q) - 1)) ELSE q

\* a sequence without any of its empty members
RECURSIVE DropEmpty(_)
DropEmpty(q) ==
    IF q = <<>> THEN <<>>
    ELSE IF Head(q) = <<>> THEN DropEmpty(Tail(q))
    ELSE <<Head(q)>> \o DropEmpty(Tail(q))

\* thread t has run split_list to its end with no other call beside it
RanAlone(t) == split[t].pc = "done" /\ \A u \in Thread \ {t} : split[u].pc = "start"

\* C17 as stated: split_list keeps the empty segments at the start and between
\* two commas, and drops only those that trailing commas leave.
C17_KeepsInnerEmptySegments ==
    \A t \in Thread :
        RanAlone(t) => split[t].head = DropTrailingEmpty(Segments(split[t].list))

\* C17: split_list returns the non-empty segments of the list in their
\* original order; every empty segment is dropped, wherever it lies.
C17_DropsEveryEmptySegment ==
    \A t \in Thread :
        RanAlone(t) => split[t].head = DropEmpty(Segments(split[t].list))

C17_Witness ==
    \E t \in Thread :
        /\ RanAlone(t)
        /\ split[t].list = <<"a", ",", ",", "A">>
        /\ split[t].head = <<(<<"a">>), (<<"A">>)>>

\* ----------------------------------- claims about decoding and signing
\* C15: when the peer's Propose or Exchange did not decode, the handshake is
\* on its way out with 0 and no later step has used the message.
C15_DecodeFailureAborts ==
    \A p \in Peer :
        /\ (h[p].accept # <<>> /\ h[p].propose_in = NoPropose) => h[p].pc \in {"exit", "done", "crashed"}
        /\ h[p].exchange_dec = 0 => (Aborted(p) /\ h[p].verify_ret = -1)

\* C16: when libp2p_secio_sign has returned 0 the handshake is on its way out
\* with 0 and no Exchange is handed to the transport.
C16_SignFailureAborts ==
    \A p \in Peer :
        h[p].sign_ret = 0 => (Aborted(p) /\ "send_exchange" \notin h[p].stages)

\* ----------------------------------- claims about what is sent and signed
\* C18: the local Propose carries the local node's own public key, the
\* NonceLen-byte nonce of the session and the three catalog strings.
C18_ProposeCarriesLocalIdentity ==
    \A p \in Peer :
        h[p].propose_out # NoPropose
            => /\ h[p].propose_out.public_key.owner = p
               /\ h[p].propose_out.rand = session[p].nonce
               /\ Len(h[p].propose_out.rand) = NonceLen
               /\ h[p].propose_out.exchanges = SupportedExchanges
               /\ h[p].propose_out.ciphers = SupportedCiphers
               /\ h[p].propose_out.hashes = SupportedHashes

\* C19: what is signed is the encoded remote Propose, then the encoded local
\* Propose (not empty), then the public key of the ephemeral pair generated in
\* this run, and that same key is the epubkey of the outgoing Exchange.
C19_SignedTranscript ==
    \A p \in Peer :
        h[p].sign_ret = 1
            => /\ h[p].exchange_out.signature.pin = propose_protobuf_encode(h[p].propose_in)
               /\ h[p].exchange_out.signature.pout = propose_protobuf_encode(h[p].propose_out)
               /\ h[p].exchange_out.signature.epk = h[p].e_private_key
               /\ h[p].exchange_out.epubkey = h[p].e_private_key

\* C20: the transcript handed to verify_signature is the local Propose bytes,
\* then the remote Propose bytes, then the peer's ephemeral public key.
C20_VerifyTranscriptOrder ==
    \A p \in Peer :
        h[p].verify_in # <<>>
            => /\ h[p].verify_in[1] = h[p].propose_out_bytes
               /\ h[p].verify_in[2] \in DanglingRead(h[p].propose_in_bytes)
               /\ h[p].verify_in[3] = h[p].exchange_in.epubkey

\* ----------------------------------- claims about buffers and the session
\* C21: every read through propose_in_bytes, for the signing transcript or
\* for the verification transcript, finds the buffer it points into live, and
\* each decoded Propose is freed at most once, at the end of the function.
C21_TranscriptBytesLive ==
    \A p \in Peer :
        /\ \A i \in 1..Len(h[p].pin_reads) : h[p].pin_reads[i].live
        /\ \A i, j \in 1..Len(h[p].propose_frees) :
              h[p].propose_frees[i] = h[p].propose_frees[j] => i = j
        /\ h[p].propose_frees # <<>> => Returned(p)

\* the handshake is leaving with 0 and never got a decoded public key: it
\* stopped at the first send, the first receive, the "secio" test, the
\* newline test, the Propose decode or the public key decode
FailedEarly(p) == Aborted(p) /\ h[p].public_key = NoKey

\* C22: a handshake that failed at a step up to and including the decoding of
\* the peer's public key has left the session as it was handed in and has
\* handed no Exchange to the transport.
C22_EarlyFailureLeavesSession ==
    \A p \in Peer :
        FailedEarly(p)
            => /\ session[p] = NewSession
               /\ "send_exchange" \notin h[p].stages
               /\ \A i \in 1..Len(h[p].sent) : h[p].sent[i] = ProtocolId

C22_Witness ==
    \E p \in Peer :
        /\ Returned(p) /\ h[p].retVal = 0
        /\ h[p].propose_in = P_badkey /\ h[p].public_key = NoKey
        /\ session[p] = NewSession

====
